---- MODULE Spec2Model ----
(***************************************************************************)
(* Robot kinematics core of kinematics-studio: DH forward kinematics, the  *)
(* geometric Jacobian, the Gaussian-elimination solver and the damped      *)
(* least-squares IK loop of class Robot.                                   *)
(*                                                                         *)
(* Numbers.  The program computes in IEEE doubles.  The model computes in  *)
(* fixed point: the integer k stands for the real k / SCALE, lengths are   *)
(* therefore in millimetres and angles in milliradians, and every product  *)
(* and quotient is rounded to the nearest unit, as a double operation is   *)
(* rounded to the nearest double.  Sequences are 1-based: index k of the   *)
(* model is index k-1 of the JavaScript array.                             *)
(*                                                                         *)
(* Evaluation.  JavaScript computes a value once and stores it.  An        *)
(* operator that reads an argument several times therefore binds it first: *)
(* The({ e(x) : x \in {x_} }) is e(x_) with x_ computed once.              *)
(***************************************************************************)
EXTENDS Integers, Sequences, FiniteSets, TLC

\* ------------------------------------------------------------------------
\*  Fixed-point arithmetic
\* ------------------------------------------------------------------------

\* units per 1.0
SCALE == 1000

\* the element of a one-element set
The(S) == CHOOSE x \in S : TRUE

\* an array with its elements computed and stored
Arr(f) == f \o << >>

Abs(x_) == The({ IF x < 0 THEN -x ELSE x : x \in {x_} })

Max(a_, b_) == The({ IF a >= b THEN a ELSE b : a \in {a_}, b \in {b_} })

Min(a_, b_) == The({ IF a <= b THEN a ELSE b : a \in {a_}, b \in {b_} })

\* a / b rounded to the nearest integer, halves away from zero (b # 0)
RDiv(a_, b_) ==
  The({ (IF (a < 0) = (b < 0) THEN 1 ELSE -1) * ((2 * Abs(a) + Abs(b)) \div (2 * Abs(b)))
        : a \in {a_}, b \in {b_} })

\* the double product a * b
FMul(a, b) == RDiv(a * b, SCALE)

\* the double quotient a / b, b # 0
FDiv(a, b) == RDiv(a * SCALE, b)

\* Math.PI in milliradians
PI == 3142

\* Math.PI / 2
HALF_PI == 1571

\* 2 * Math.PI
TWO_PI == 6283

\* RAD = Math.PI / 180 is below the resolution of the grid; deg * RAD is
\* computed in one step from pi = 3.14159
DegToRad(deg) == RDiv(deg * 314159, 18000)

\* x reduced to [-PI, PI)
WrapPi(x) == ((x + PI) % TWO_PI) - PI

\* the Taylor polynomial of the cosine up to r^8, from r2 = r^2
CosSeries(r2_) ==
  The({ SCALE - RDiv(r2, 2) + RDiv(r4, 24) - RDiv(FMul(r4, r2), 720)
              + RDiv(FMul(FMul(r4, r2), r2), 40320)
        : r2 \in {r2_}, r4 \in {FMul(r2_, r2_)} })

\* cosine of r for |r| <= HALF_PI
CosPoly(r_) == The({ CosSeries(FMul(r, r)) : r \in {r_} })

\* the Taylor polynomial of the sine up to r^9, from r and r2 = r^2
SinSeries(r_, r2_) ==
  The({ r - RDiv(r3, 6) + RDiv(r5, 120) - RDiv(FMul(r5, r2), 5040)
          + RDiv(FMul(FMul(r5, r2), r2), 362880)
        : r \in {r_}, r2 \in {r2_}, r3 \in {FMul(r2_, r_)},
          r5 \in {FMul(FMul(r2_, r_), r2_)} })

\* sine of r for |r| <= HALF_PI
SinPoly(r_) == The({ SinSeries(r, FMul(r, r)) : r \in {r_} })

\* Math.cos
Cos(x) ==
  The({ IF r <= HALF_PI THEN CosPoly(r) ELSE -CosPoly(PI - r) : r \in {Abs(WrapPi(x))} })

\* Math.sin
Sin(x) ==
  The({ IF w < 0 THEN -s ELSE s
        : w \in {WrapPi(x)},
          s \in {The({ IF r <= HALF_PI THEN SinPoly(r) ELSE SinPoly(PI - r)
                       : r \in {Abs(WrapPi(x))} })} })

RECURSIVE SqrtSearch(_, _, _)
\* the largest k in lo..hi with k * k <= x
SqrtSearch(x, lo_, hi_) ==
  The({ IF lo >= hi THEN lo
        ELSE The({ IF mid * mid <= x THEN SqrtSearch(x, mid, hi)
                   ELSE SqrtSearch(x, lo, mid - 1)
                   : mid \in {(lo + hi + 1) \div 2} })
        : lo \in {lo_}, hi \in {hi_} })

\* Math.sqrt of a sum of squares of fixed-point numbers, rounded down, so
\* that Sqrt(x) < t is exactly x < t * t for a whole number of units t
Sqrt(x_) == The({ SqrtSearch(x, 0, 32768) : x \in {x_} })

\* ------------------------------------------------------------------------
\*  SECTION 1: math utilities
\* ------------------------------------------------------------------------

\* lines 15-20: the matrix from the four sines and cosines
dhMatrix(ct, st, ca, sa, d, a) ==
  << ct, FMul(-st, ca), FMul(st, sa),  FMul(a, ct),
     st, FMul(ct, ca),  FMul(-ct, sa), FMul(a, st),
     0,  sa,            ca,            d,
     0,  0,             0,             SCALE >>

\* lines 12-21 with d and a exchanged
dhTransformSwapped(theta, d, a, alpha) ==
  The({ dhMatrix(ct, st, ca, sa, a, d)
        : ct \in {Cos(theta)}, st \in {Sin(theta)},
          ca \in {Cos(alpha)}, sa \in {Sin(alpha)} })

\* lines 12-21
dhTransform(theta, d, a, alpha) ==
  The({ dhMatrix(ct, st, ca, sa, d, a)
        : ct \in {Cos(theta)}, st \in {Sin(theta)},
          ca \in {Cos(alpha)}, sa \in {Sin(alpha)} })

\* lines 23-32
mat4Mul(A_, B_) ==
  The({ Arr([ i \in 1..16 |->
              The({ RDiv(  A[r * 4 + 1] * B[c + 1]
                         + A[r * 4 + 2] * B[4 + c + 1]
                         + A[r * 4 + 3] * B[8 + c + 1]
                         + A[r * 4 + 4] * B[12 + c + 1], SCALE)
                    : r \in {(i - 1) \div 4}, c \in {(i - 1) % 4} }) ])
        : A \in {A_}, B \in {B_} })

\* lines 34-36
mat4Identity ==
  << SCALE, 0, 0, 0,  0, SCALE, 0, 0,  0, 0, SCALE, 0,  0, 0, 0, SCALE >>

\* line 38
mat4Pos(M_) == The({ << M[4], M[8], M[12] >> : M \in {M_} })

\* line 39
mat4AxisZ(M_) == The({ << M[3], M[7], M[11] >> : M \in {M_} })

\* line 41
v3Sub(a_, b_) ==
  The({ << a[1] - b[1], a[2] - b[2], a[3] - b[3] >> : a \in {a_}, b \in {b_} })

\* lines 44-46
v3Cross(a_, b_) ==
  The({ << RDiv(a[2] * b[3] - a[3] * b[2], SCALE),
           RDiv(a[3] * b[1] - a[1] * b[3], SCALE),
           RDiv(a[1] * b[2] - a[2] * b[1], SCALE) >>
        : a \in {a_}, b \in {b_} })

\* line 48
v3Len(v_) == The({ Sqrt(v[1] * v[1] + v[2] * v[2] + v[3] * v[3]) : v \in {v_} })

\* a Float64Array(n) as created: n zeros
Zeros(n) == Arr([ i \in 1..n |-> 0 ])

RECURSIVE PivotRow(_, _, _, _, _, _)
\* lines 58-62: the row of the first largest |aug[r][col]| among rows col..n,
\* scanning r upward from the candidate mx with magnitude mv
PivotRow(aug, col, n, r_, mx_, mv_) ==
  The({ IF r > n THEN mx
        ELSE The({ IF v > mv THEN PivotRow(aug, col, n, r + 1, r, v)
                   ELSE PivotRow(aug, col, n, r + 1, mx, mv)
                   : v \in {Abs(aug[r][col])} })
        : r \in {r_}, mx \in {mx_}, mv \in {mv_} })

\* line 63: rows i and j exchanged
SwapRows(aug_, i, j_) ==
  The({ Arr([ r \in DOMAIN aug |->
                IF r = i THEN aug[j] ELSE IF r = j THEN aug[i] ELSE aug[r] ])
        : aug \in {aug_}, j \in {j_} })

\* lines 58-63: the matrix with the pivot row of column col swapped into place
Pivoted(aug_, col, n) ==
  The({ SwapRows(aug, col, PivotRow(aug, col, n, col + 1, col, Abs(aug[col][col])))
        : aug \in {aug_} })

\* 1e-12 is far below one unit of the grid, so a grid value p has
\* |p| < 1e-12 exactly when p = 0 (line 65) ...
BelowPivotEps(p) == Abs(p) = 0

\* ... and |p| > 1e-12 exactly when p # 0 (line 75)
AbovePivotEps(p) == Abs(p) > 0

\* lines 66-69: row r minus f times the pivot row, from column col on
EliminateRow(rowR_, rowC_, col, n, p) ==
  The({ Arr([ j \in 1..(n + 1) |->
                IF j >= col THEN rowR[j] - FMul(f, rowC[j]) ELSE rowR[j] ])
        : rowR \in {rowR_}, rowC \in {rowC_}, f \in {FDiv(rowR_[col], p)} })

\* lines 64-69: one column of the elimination on the swapped matrix
EliminateCol(aug_, col, n) ==
  The({ IF BelowPivotEps(aug[col][col]) THEN aug
        ELSE Arr([ r \in 1..n |->
                     IF r > col
                       THEN EliminateRow(aug[r], aug[col], col, n, aug[col][col])
                       ELSE aug[r] ])
        : aug \in {aug_} })

RECURSIVE Eliminate(_, _, _)
\* lines 57-70: the elimination loop from column col on
Eliminate(aug_, col, n) ==
  The({ IF col > n THEN aug
        ELSE Eliminate(EliminateCol(Pivoted(aug, col, n), col, n), col + 1, n)
        : aug \in {aug_} })

\* A double that is not finite (Infinity or NaN, the result of a division by
\* zero and of any operation on such a result) is the value NotFinite, which
\* lies outside the range of the finite values of the model.
NotFinite == 2 ^ 30

IsFinite(x) == x # NotFinite

\* a * x where x may be NotFinite
XMul(a, x_) == The({ IF x = NotFinite THEN NotFinite ELSE FMul(a, x) : x \in {x_} })

\* a - y where y may be NotFinite
XSub(a, y_) == The({ IF y = NotFinite THEN NotFinite ELSE a - y : y \in {y_} })

\* a + y where either may be NotFinite
XAdd(a_, y_) ==
  The({ IF a = NotFinite \/ y = NotFinite THEN NotFinite ELSE a + y
        : a \in {a_}, y \in {y_} })

\* a / b where a may be NotFinite and b may be 0
XDiv(a_, b_) ==
  The({ IF a = NotFinite \/ b = 0 THEN NotFinite ELSE FDiv(a, b)
        : a \in {a_}, b \in {b_} })

RECURSIVE RowDot(_, _, _, _)
\* line 74: the sum of aug[i][j] * x[j] for j from j to n
RowDot(row, x, j, n) ==
  IF j > n THEN 0 ELSE XAdd(XMul(row[j], x[j]), RowDot(row, x, j + 1, n))

\* line 75 without its test: x[i] /= aug[i][i] whatever the pivot
BackSubComponentUnguarded(num, piv) == XDiv(num, piv)

\* line 75: x[i] /= aug[i][i] if the pivot is above the threshold, else 0
BackSubComponent(num, piv) ==
  IF AbovePivotEps(piv) THEN XDiv(num, piv) ELSE 0

\* lines 73-75: component i of the solution, x[i+1..n] given
BackSubRow(aug, x, i, n) ==
  BackSubComponent(XSub(aug[i][n + 1], RowDot(aug[i], x, i + 1, n)), aug[i][i])

RECURSIVE BackSub(_, _, _, _)
\* lines 72-76: x[i], x[i-1], ..., x[1] filled in, x[i+1..n] given
BackSub(aug_, x_, i, n) ==
  The({ IF i < 1 THEN x
        ELSE BackSub(aug, [x EXCEPT ![i] = BackSubRow(aug, x, i, n)], i - 1, n)
        : aug \in {aug_}, x \in {x_} })

\* lines 51-56: the augmented matrix [A | b], A flat and row-major
Augment(A_, b_, n) ==
  The({ Arr([ i \in 1..n |-> Arr([ j \in 1..(n + 1) |->
                IF j <= n THEN A[(i - 1) * n + j] ELSE b[i] ]) ])
        : A \in {A_}, b \in {b_} })

\* lines 50-78
solveLinear(A, b, n) ==
  BackSub(Eliminate(Augment(A, b, n), 1, n), Zeros(n), n, n)

\* ------------------------------------------------------------------------
\*  SECTION 2: robot kinematics
\* ------------------------------------------------------------------------

\* lines 84-128: dh rows are <<d, a, alpha>>, limits are <<min, max>> in degrees
PRESETS ==
  [ k \in {"6dof", "ur5", "scara", "3link"} |->
      CASE k = "6dof" ->
             [ name   |-> "6-DOF Industrial",
               dh     |-> << <<400, 0, HALF_PI>>, <<0, 800, 0>>, <<0, 550, 0>>,
                             <<0, 0, HALF_PI>>, <<380, 0, -HALF_PI>>, <<180, 0, 0>> >>,
               limits |-> << <<-180, 180>>, <<-135, 135>>, <<-150, 150>>,
                             <<-180, 180>>, <<-120, 120>>, <<-180, 180>> >> ]
        [] k = "ur5" ->
             [ name   |-> "UR5-like",
               dh     |-> << <<89, 0, HALF_PI>>, <<0, -425, 0>>, <<0, -392, 0>>,
                             <<109, 0, HALF_PI>>, <<95, 0, -HALF_PI>>, <<82, 0, 0>> >>,
               limits |-> << <<-360, 360>>, <<-360, 360>>, <<-360, 360>>,
                             <<-360, 360>>, <<-360, 360>>, <<-360, 360>> >> ]
        [] k = "scara" ->
             [ name   |-> "4-DOF SCARA",
               dh     |-> << <<350, 0, 0>>, <<0, 700, 0>>, <<0, 500, PI>>,
                             <<200, 0, 0>> >>,
               limits |-> << <<-135, 135>>, <<-135, 135>>, <<-180, 180>>,
                             <<-180, 180>> >> ]
        [] k = "3link" ->
             [ name   |-> "3-Link Planar",
               dh     |-> << <<0, 800, 0>>, <<0, 600, 0>>, <<0, 400, 0>> >>,
               limits |-> << <<-180, 180>>, <<-150, 150>>, <<-150, 150>> >> ] ]

\* the keys every object literal inherits from Object.prototype: PRESETS[k] is
\* then a function object, which has a name and no dh
InheritedKeys == {"constructor", "toString"}

\* line 132 with a fallback: PRESETS[presetKey] || PRESETS['6dof']
PresetLookupFallback(key) ==
  The({ [ kind |-> "preset", name |-> PRESETS[k].name,
          dh |-> PRESETS[k].dh, limits |-> PRESETS[k].limits ]
        : k \in {IF key \in DOMAIN PRESETS THEN key ELSE "6dof"} })

\* line 132: PRESETS[presetKey]
PresetLookup(key) ==
  IF key \in DOMAIN PRESETS
    THEN [ kind |-> "preset", name |-> PRESETS[key].name,
           dh |-> PRESETS[key].dh, limits |-> PRESETS[key].limits ]
  ELSE IF key \in InheritedKeys
    THEN [ kind |-> "inherited", name |-> key ]
  ELSE [ kind |-> "undefined" ]

\* lines 133-135: p.name of undefined throws, and so does p.dh.length when p
\* has no dh
CtorThrows(key) == PresetLookup(key).kind # "preset"

\* lines 133-137: the fields of this, from the preset p
RobotOf(p) ==
  [ name    |-> p.name,
    dh      |-> p.dh,
    nJoints |-> Len(p.dh),
    limits  |-> Arr([ i \in 1..Len(p.limits) |->
                        << DegToRad(p.limits[i][1]), DegToRad(p.limits[i][2]) >> ]),
    angles  |-> Zeros(Len(p.dh)) ]

\* lines 131-138: the object the constructor builds from a preset
NewRobot(key) == The({ RobotOf(p) : p \in {PresetLookup(key)} })

\* line 143 without the upper limit
ClampOneLowerOnly(lim, a) == Max(lim[1], a)

\* line 143 for one joint
ClampOne(lim, a) == Max(lim[1], Min(lim[2], a))

\* lines 140-146 without the loop body's clamp: out[i] = angles[i]
clampAnglesUnclamped(R_, angles_) == Arr(angles_)

\* lines 140-146
clampAngles(R_, angles_) ==
  The({ Arr([ i \in 1..Len(angles) |->
                IF i <= R.nJoints THEN ClampOne(R.limits[i], angles[i]) ELSE 0 ])
        : R \in {R_}, angles \in {angles_} })

RECURSIVE fkChainLeftMul(_, _, _)
\* lines 149-154 with the product of line 153 turned round: mat4Mul(T, transforms[i])
fkChainLeftMul(R, angles, i) ==
  IF i = 0 THEN << mat4Identity >>
  ELSE The({ Append(prev, mat4Mul(dhTransform(angles[i], R.dh[i][1], R.dh[i][2], R.dh[i][3]),
                                  prev[i]))
             : prev \in {fkChainLeftMul(R, angles, i - 1)} })

RECURSIVE fkChain(_, _, _)
\* lines 149-154: transforms after i turns of the loop
fkChain(R, angles, i) ==
  IF i = 0 THEN << mat4Identity >>
  ELSE The({ Append(prev, mat4Mul(prev[i],
                      dhTransform(angles[i], R.dh[i][1], R.dh[i][2], R.dh[i][3])))
             : prev \in {fkChain(R, angles, i - 1)} })

\* lines 148-156
fk(R_, angles_) ==
  The({ fkChain(R, angles, R.nJoints) : R \in {R_}, angles \in {angles_} })

\* lines 165-168: cp for every joint, from the frames T
CrossColumns(T, n) ==
  The({ Arr([ i \in 1..n |-> v3Cross(mat4AxisZ(T[i]), v3Sub(pe, mat4Pos(T[i]))) ])
        : pe \in {mat4Pos(T[n + 1])} })

\* lines 169-172: Jp and Jr are flat 3 x n, entry (r, i) at r * n + i
JacobianOf(T, n) ==
  The({ [ Jp |-> Arr([ k \in 1..(3 * n) |-> cp[((k - 1) % n) + 1][((k - 1) \div n) + 1] ]),
          Jr |-> Arr([ k \in 1..(3 * n) |->
                       mat4AxisZ(T[((k - 1) % n) + 1])[((k - 1) \div n) + 1] ]),
          n  |-> n ]
        : cp \in {CrossColumns(T, n)} })

\* lines 158-173
jacobian(R_, angles_) ==
  The({ The({ JacobianOf(T, R.nJoints) : T \in {fk(R, angles)} })
        : R \in {R_}, angles \in {angles_} })

\* opts.x || d: a missing option and the option 0 both give the default
OrDefault(v, d) == IF v = 0 THEN d ELSE v

\* line 176
DefaultMaxIter == 200

\* line 177: 0.001
DefaultTol == 1

\* line 178: 0.5
DefaultLambda == 500

RECURSIVE DotColumns(_, _, _, _, _)
\* line 196: the sum of Jp[r n + k] Jp[c n + k] over the joints k..n
DotColumns(Jp, r, c, n, k) ==
  IF k > n THEN 0
  ELSE Jp[r * n + k] * Jp[c * n + k] + DotColumns(Jp, r, c, n, k + 1)

\* lines 192-198: M = Jp Jp^T + lambda^2 I, flat 3 x 3
DampedNormal(Jp_, n, lambda) ==
  The({ Arr([ k \in 1..9 |->
                The({ RDiv(DotColumns(Jp, r, c, n, 1), SCALE)
                        + (IF r = c THEN FMul(lambda, lambda) ELSE 0)
                      : r \in {(k - 1) \div 3}, c \in {(k - 1) % 3} }) ])
        : Jp \in {Jp_} })

\* the end-effector position of a pose: mat4Pos(T[n]) of lines 184 and 209
EndEffector(R, angles) == mat4Pos(fk(R, angles)[R.nJoints + 1])

\* lines 183-185: err = target - pe
ErrOf(R, angles, target) == v3Sub(target, EndEffector(R, angles))

\* lines 201-205: angles[i] += dq for every joint
Stepped(angles_, Jp_, v_, n) ==
  The({ Arr([ i \in 1..Len(angles) |->
                IF i <= n
                  THEN angles[i]
                       + RDiv(Jp[i] * v[1] + Jp[n + i] * v[2] + Jp[2 * n + i] * v[3], SCALE)
                  ELSE angles[i] ])
        : angles \in {angles_}, Jp \in {Jp_}, v \in {v_} })

\* lines 189-205: the working vector after angles[i] += dq, before the clamp
Updated(R, angles, err, lambda) ==
  The({ Stepped(angles, Jp, solveLinear(DampedNormal(Jp, R.nJoints, lambda), err, 3),
                R.nJoints)
        : Jp \in {jacobian(R, angles).Jp} })

\* line 176 without the default: opts.maxIter as it is
MaxIterOfExplicit(a) == a.maxIter

\* line 176
MaxIterOf(a) == OrDefault(a.maxIter, DefaultMaxIter)

\* line 177 without the option: the default whatever opts.tol is
TolOfDefaultOnly(a) == DefaultTol

\* line 177
TolOf(a) == OrDefault(a.tol, DefaultTol)

\* line 178
LambdaOf(a) == OrDefault(a.lambda, DefaultLambda)

\* lines 182-207: one turn of the loop on st, the working vector angles,
\* the loop variable iter and, once the call has returned, what it returned
ikTurn(R, a, st_) ==
  The({ IF st.returned THEN st
        ELSE The({ IF v3Len(err) < TolOf(a)
                     THEN [ st EXCEPT !.returned = TRUE,
                                      !.angles = clampAngles(R, st.angles),
                                      !.error = v3Len(err) ]
                     ELSE [ st EXCEPT !.angles = clampAngles(R, Updated(R, st.angles, err,
                                                                        LambdaOf(a))),
                                      !.iter = st.iter + 1 ]
                   : err \in {ErrOf(R, st.angles, a.target)} })
        : st \in {st_} })

RECURSIVE ikTurns(_, _, _, _)
\* line 182: k turns of the loop, the first half of them and then the rest
ikTurns(R, a, st_, k) ==
  The({ IF k = 0 THEN st
        ELSE IF k = 1 THEN ikTurn(R, a, st)
        ELSE ikTurns(R, a, ikTurns(R, a, st, k \div 2), k - (k \div 2))
        : st \in {st_} })

\* lines 187 and 208-210: the object returned after the loop ended in st
ikReturn(R, a, st_) ==
  The({ IF st.returned
          THEN [ angles |-> st.angles, converged |-> TRUE, error |-> st.error,
                 iterations |-> st.iter ]
          ELSE [ angles |-> st.angles, converged |-> FALSE,
                 error |-> v3Len(ErrOf(R, st.angles, a.target)),
                 iterations |-> MaxIterOf(a) ]
        : st \in {st_} })

\* lines 175-211: what one call returns when nothing else runs; a.given tells
\* whether startAngles was passed, a.start is its value
solveIK(R, a) ==
  ikReturn(R, a,
           ikTurns(R, a, [ angles |-> IF a.given THEN a.start ELSE R.angles,
                           iter |-> 0, returned |-> FALSE, error |-> 0 ],
                   MaxIterOf(a)))

\* ------------------------------------------------------------------------
\*  State
\* ------------------------------------------------------------------------

VARIABLES
  presetKey,   \* the key given to new Robot(presetKey)
  ctor,        \* "none" before the constructor ran, then "ok" or "threw"
  robot,       \* the Robot object (this): name, dh, nJoints, limits, angles
  pc,          \* per solveIK call: "idle", "ITERATING", "CONVERGED", "EXHAUSTED"
  args,        \* per call: target, startAngles as passed, opts
  startVec,    \* per call: the caller's startAngles array as it is now
  anglesRef,   \* per call: the array the local variable angles refers to
  work,        \* per call: the array the call created last
  iter,        \* per call: the loop variable iter
  updates,     \* per call: how often lines 201-206 ran
  result,      \* per call: the object returned
  alone,       \* per call: what the call returns if nothing else runs meanwhile
  probe,       \* a direct call of clampAngles, fk or jacobian and what it returned
  lin          \* a solveLinear call: its arguments, aug, the column, x

vars ==
  << presetKey, ctor, robot, pc, args, startVec, anglesRef, work, iter, updates,
     result, alone, probe, lin >>

ctorVars == << presetKey, ctor, robot >>

ikVars == << pc, args, startVec, anglesRef, work, iter, updates, result, alone >>

\* the solveIK calls the model follows
Calls == {1, 2}

\* the largest explicit opts.maxIter the model passes
MaxIterOpt == 2

\* an explicit opts.tol the model passes: 0.3
CoarseTol == 300

\* how far beyond a limit the out-of-limits angles lie: 0.3 rad
OverLimit == 300

NoRobot == [ name |-> "", dh |-> << >>, nJoints |-> 0, limits |-> << >>, angles |-> << >> ]

NoArgs ==
  [ target |-> << >>, given |-> FALSE, start |-> << >>, maxIter |-> 0, tol |-> 0,
    lambda |-> 0 ]

NoResult == [ angles |-> << >>, obj |-> "none", converged |-> FALSE, error |-> 0, iterations |-> 0 ]

NoReturn == [ angles |-> << >>, converged |-> FALSE, error |-> 0, iterations |-> 0 ]

NoProbe == [ op |-> "none", arg |-> << >>, argAfter |-> << >>, ret |-> << >>, retRef |-> "none" ]

NoLin == [ pc |-> "off", n |-> 0, A |-> << >>, b |-> << >>, aug |-> << >>,
           col |-> 0, skipped |-> {}, eliminated |-> {}, x |-> << >> ]

\* the keys tried: the presets, two inherited keys and a key PRESETS lacks
Keys == DOMAIN PRESETS \cup InheritedKeys \cup {"7dof"}

\* the pose of TEST 2: joint 2 at -45 degrees, joint 3 at 45 degrees
BentPose(R) ==
  Arr([ i \in 1..R.nJoints |->
         IF i = 2 THEN DegToRad(-45) ELSE IF i = 3 THEN DegToRad(45) ELSE 0 ])

\* a pose outside the limits: joint 2 beyond its upper limit
OverPose(R) ==
  Arr([ i \in 1..R.nJoints |-> IF i = 2 THEN R.limits[2][2] + OverLimit ELSE 0 ])

\* the startAngles arrays the callers pass to solveIK, fk and jacobian
StartVecs(R) == { BentPose(R), OverPose(R) }

\* the values tried for joint j: below, at and above each limit, and 0
JointValues(R, j) ==
  { R.limits[j][1] - OverLimit, R.limits[j][1], 0, R.limits[j][2],
    R.limits[j][2] + OverLimit }

\* the other joints all 0, all below their limits or all above them
Backgrounds == { "zero", "below", "above" }

\* the angle of joint i in the background bg
BackgroundAngle(R, i, bg) ==
  IF bg = "zero" THEN 0
  ELSE IF bg = "below" THEN R.limits[i][1] - OverLimit
  ELSE R.limits[i][2] + OverLimit

\* the vectors the callers pass to clampAngles
ClampVecs(R) ==
  { Arr([ i \in 1..R.nJoints |-> IF i = j[1] THEN j[2] ELSE BackgroundAngle(R, i, bg) ])
    : j \in UNION { { << k, v >> : v \in JointValues(R, k) } : k \in 1..R.nJoints },
      bg \in Backgrounds }

\* a target no preset reaches
FarTarget == << 5000, 0, 0 >>

\* how far NearTarget lies from where BentPose puts the end-effector: 0.1
NearOffset == 100

\* a target within CoarseTol of the end-effector of BentPose, and not within
\* the default tolerance
NearTarget(R) ==
  The({ << p[1] + NearOffset, p[2], p[3] >> : p \in {EndEffector(R, BentPose(R))} })

\* the targets: where the start poses put the end-effector, NearTarget and
\* FarTarget
Targets(R) ==
  { EndEffector(R, q) : q \in StartVecs(R) } \cup { NearTarget(R), FarTarget }

\* the explicit values of opts.maxIter
MaxIterOpts == 1..MaxIterOpt

\* opts.tol: 0 stands for the option left out
TolOpts == {0, CoarseTol}

\* opts.lambda: 0 stands for the option left out
LambdaOpts == {0}

\* ------------------------------------------------------------------------
\*  new Robot(presetKey)
\* ------------------------------------------------------------------------

\* lines 131-138
Construct(key) ==
  /\ ctor = "none"
  /\ presetKey' = key
  /\ IF CtorThrows(key)
       THEN ctor' = "threw" /\ robot' = robot
       ELSE ctor' = "ok" /\ robot' = NewRobot(key)
  /\ UNCHANGED << ikVars, probe, lin >>

\* ------------------------------------------------------------------------
\*  The arrays a call can reach: the caller's startAngles ("start"),
\*  this.angles ("this") and the array the call created last ("work")
\* ------------------------------------------------------------------------

\* the arrays of call c
Heap(c) == [ start |-> startVec[c], this |-> robot.angles, work |-> work[c] ]

\* the heap after the array ref was overwritten with val
Write(h, ref, val) == [h EXCEPT ![ref] = val]

\* the arrays of call c become those of h
Commit(c, h) ==
  /\ startVec' = [startVec EXCEPT ![c] = h.start]
  /\ robot' = [robot EXCEPT !.angles = h.this]
  /\ work' = [work EXCEPT ![c] = h.work]

\* the array a reference of call c stands for
Deref(c, ref) == Heap(c)[ref]

\* line 180 without the copy: angles is the array it was given
WorkingRefAliased(src) == src

\* line 180: new Float64Array(...) is a new array, whatever it copies from
WorkingRef(src) == "work"

\* line 141: out is a new array, whatever the argument
ClampOutRef(argRef) == "new"

\* ------------------------------------------------------------------------
\*  robot.solveIK(target, startAngles, opts)
\* ------------------------------------------------------------------------

\* lines 175-180: the call, up to the loop
IKCall(c, target, given, sv, maxIter, tol, lambda) ==
  /\ ctor = "ok"
  /\ pc[c] = "idle"
  /\ probe.op = "none"
  /\ args' = [args EXCEPT ![c] = [ target |-> target, given |-> given,
                                   start |-> IF given THEN sv ELSE << >>,
                                   maxIter |-> maxIter, tol |-> tol, lambda |-> lambda ]]
  /\ alone' = [alone EXCEPT ![c] = solveIK(robot, args'[c])]
  /\ startVec' = [startVec EXCEPT ![c] = IF given THEN sv ELSE << >>]
  /\ anglesRef' = [anglesRef EXCEPT ![c] = WorkingRef(IF given THEN "start" ELSE "this")]
  /\ work' = [work EXCEPT ![c] = IF given THEN sv ELSE robot.angles]
  /\ iter' = [iter EXCEPT ![c] = 0]
  /\ pc' = [pc EXCEPT ![c] = "ITERATING"]
  /\ UNCHANGED << ctorVars, updates, result, probe, lin >>

\* lines 183-186 and 208-210: the distance of a pose to the target
DistOf(R, angles, target) == v3Len(ErrOf(R, angles, target))

\* line 187: return with converged: true; out is where clampAngles put its
\* result, clamped is that result
IKConverge(c, dist, out, clamped) ==
  /\ result' = [result EXCEPT ![c] =
        [ angles |-> clamped, obj |-> IF out = "new" THEN "clamped" ELSE out,
          converged |-> TRUE, error |-> dist, iterations |-> iter[c] ]]
  /\ Commit(c, IF out = "new" THEN Heap(c) ELSE Write(Heap(c), out, clamped))
  /\ pc' = [pc EXCEPT ![c] = "CONVERGED"]
  /\ UNCHANGED << presetKey, ctor, args, anglesRef, iter, updates, alone >>

\* lines 189-206: upd is the array angles refers to after lines 201-205, out
\* is where clampAngles of line 206 put its result
IKUpdate(c, upd, out) ==
  /\ Commit(c, Write(Write(Heap(c), anglesRef[c], upd),
                     IF out = "new" THEN "work" ELSE out, clampAngles(robot, upd)))
  /\ anglesRef' = [anglesRef EXCEPT ![c] = IF out = "new" THEN "work" ELSE out]
  /\ iter' = [iter EXCEPT ![c] = iter[c] + 1]
  /\ updates' = [updates EXCEPT ![c] = updates[c] + 1]
  /\ UNCHANGED << presetKey, ctor, args, result, pc, alone >>

\* lines 182-207: one turn of the loop
IKIterate(c) ==
  /\ pc[c] = "ITERATING"
  /\ iter[c] < MaxIterOf(args[c])
  /\ \E cur \in { Deref(c, anglesRef[c]) } :
       \E err \in { ErrOf(robot, cur, args[c].target) } :
         \E dist \in { v3Len(err) } :
           IF dist < TolOf(args[c])
             THEN IKConverge(c, dist, ClampOutRef(anglesRef[c]), clampAngles(robot, cur))
             ELSE \E upd \in { Updated(robot, cur, err, LambdaOf(args[c])) } :
                    IKUpdate(c, upd, ClampOutRef(anglesRef[c]))
  /\ UNCHANGED << probe, lin >>

\* lines 208-210: the loop ran out
IKExhaust(c) ==
  /\ pc[c] = "ITERATING"
  /\ ~(iter[c] < MaxIterOf(args[c]))
  /\ \E cur \in { Deref(c, anglesRef[c]) } :
       result' = [result EXCEPT ![c] =
            [ angles |-> cur, obj |-> anglesRef[c], converged |-> FALSE,
              error |-> DistOf(robot, cur, args[c].target),
              iterations |-> MaxIterOf(args[c]) ]]
  /\ pc' = [pc EXCEPT ![c] = "EXHAUSTED"]
  /\ UNCHANGED << ctorVars, args, startVec, anglesRef, work, iter, updates, alone,
                  probe, lin >>

\* ------------------------------------------------------------------------
\*  robot.clampAngles(v), robot.fk(v), robot.jacobian(v) called directly
\* ------------------------------------------------------------------------

\* the array the method returns: clampAngles returns out (line 145), fk and
\* jacobian return the arrays they build (lines 149 and 160-161)
RetRef(op) == IF op = "clampAngles" THEN ClampOutRef("arg") ELSE "new"

\* the caller's array after the call: only clampAngles assigns to elements of
\* an angle array (line 143), and it assigns to out
ArgAfter(R, op, v) ==
  IF op = "clampAngles" /\ RetRef(op) = "arg" THEN clampAngles(R, v) ELSE v

\* what the method returns
MethodResult(R, op, v) ==
  IF op = "clampAngles" THEN clampAngles(R, v)
  ELSE IF op = "fk" THEN fk(R, v)
  ELSE jacobian(R, v)

Probe(op, v) ==
  /\ ctor = "ok"
  /\ probe.op = "none"
  /\ \A c \in Calls : pc[c] = "idle"
  /\ probe' = [ op |-> op, arg |-> v, argAfter |-> ArgAfter(robot, op, v),
                ret |-> MethodResult(robot, op, v), retRef |-> RetRef(op) ]
  /\ UNCHANGED << ctorVars, ikVars, lin >>

\* the caller drops the result
ProbeReturn ==
  /\ probe.op # "none"
  /\ probe' = NoProbe
  /\ UNCHANGED << ctorVars, ikVars, lin >>

\* ------------------------------------------------------------------------
\*  The program: a robot is constructed, then its methods are called
\* ------------------------------------------------------------------------

Init ==
  /\ presetKey = ""
  /\ ctor = "none"
  /\ robot = NoRobot
  /\ pc = [ c \in Calls |-> "idle" ]
  /\ args = [ c \in Calls |-> NoArgs ]
  /\ startVec = [ c \in Calls |-> << >> ]
  /\ anglesRef = [ c \in Calls |-> "work" ]
  /\ work = [ c \in Calls |-> << >> ]
  /\ iter = [ c \in Calls |-> 0 ]
  /\ updates = [ c \in Calls |-> 0 ]
  /\ result = [ c \in Calls |-> NoResult ]
  /\ alone = [ c \in Calls |-> NoReturn ]
  /\ probe = NoProbe
  /\ lin = NoLin

\* the first call: solveIK(target, startAngles, opts) with a budget given
FirstCall ==
  \E target \in Targets(robot), given \in BOOLEAN, sv \in StartVecs(robot),
     maxIter \in MaxIterOpts, tol \in TolOpts, lambda \in LambdaOpts :
       IKCall(1, target, given, sv, maxIter, tol, lambda)

\* the first call: solveIK(target), every option and startAngles left out;
\* the model follows this long call on its own
FirstCallDefault ==
  /\ pc[2] = "idle"
  /\ IKCall(1, FarTarget, FALSE, << >>, 0, 0, 0)

\* the second call, which may run between any two turns of the first, starts
\* from the model's own angles
SecondCall ==
  /\ pc[1] = "idle" \/ args[1].maxIter # 0
  /\ IKCall(2, EndEffector(robot, BentPose(robot)), FALSE, << >>, MaxIterOpt, CoarseTol, 0)

\* a direct call of one of the three methods
DirectCall ==
  \/ \E v \in ClampVecs(robot) : Probe("clampAngles", v)
  \/ \E op \in {"fk", "jacobian"}, v \in StartVecs(robot) : Probe(op, v)

Next ==
  \/ \E key \in Keys : Construct(key)
  \/ FirstCall
  \/ FirstCallDefault
  \/ SecondCall
  \/ \E c \in Calls : IKIterate(c)
  \/ \E c \in Calls : IKExhaust(c)
  \/ DirectCall
  \/ ProbeReturn

Spec == Init /\ [][Next]_vars

\* ------------------------------------------------------------------------
\*  solveLinear(A, b, n), one column and one component at a time
\* ------------------------------------------------------------------------

\* the size of the systems solveIK solves (line 199)
LinN == 3

\* the entries of the matrices tried: 0, 1 and, for the smaller systems, -2
Entries(n) == IF n < LinN THEN { -2 * SCALE, 0, SCALE } ELSE { 0, SCALE }

\* the right-hand sides tried: all ones, and 1, 2, ..., n
RightSides(n) == { Arr([ i \in 1..n |-> SCALE ]), Arr([ i \in 1..n |-> i * SCALE ]) }

\* the flat n x n matrices tried
Matrices(n) == [ 1..(n * n) -> Entries(n) ]

\* lines 51-56: the call, up to the elimination loop
LinStart(A, b, n) ==
  [ pc |-> "eliminate", n |-> n, A |-> A, b |-> b, aug |-> Augment(A, b, n),
    col |-> 1, skipped |-> {}, eliminated |-> {}, x |-> << >> ]

\* lines 57-70: one turn of the elimination loop; line 71 after the last
LinColumn ==
  /\ lin.pc = "eliminate"
  /\ IF lin.col > lin.n
       THEN lin' = [lin EXCEPT !.pc = "substitute", !.col = lin.n, !.x = Zeros(lin.n)]
       ELSE \E sw \in { Pivoted(lin.aug, lin.col, lin.n) } :
              lin' = [lin EXCEPT
                        !.aug = EliminateCol(sw, lin.col, lin.n),
                        !.skipped = IF BelowPivotEps(sw[lin.col][lin.col])
                                      THEN lin.skipped \cup {lin.col} ELSE lin.skipped,
                        !.eliminated = IF BelowPivotEps(sw[lin.col][lin.col])
                                         THEN lin.eliminated
                                         ELSE lin.eliminated \cup {lin.col},
                        !.col = lin.col + 1]
  /\ UNCHANGED << ctorVars, ikVars, probe >>

\* lines 72-77: one turn of the back-substitution loop; the return after the last
LinComponent ==
  /\ lin.pc = "substitute"
  /\ IF lin.col < 1
       THEN lin' = [lin EXCEPT !.pc = "returned"]
       ELSE lin' = [lin EXCEPT
                      !.x = [lin.x EXCEPT ![lin.col] = BackSubRow(lin.aug, lin.x, lin.col, lin.n)],
                      !.col = lin.col - 1]
  /\ UNCHANGED << ctorVars, ikVars, probe >>

\* a solveLinear call on its own: any of the systems tried
InitLin ==
  /\ presetKey = ""
  /\ ctor = "none"
  /\ robot = NoRobot
  /\ pc = [ c \in Calls |-> "idle" ]
  /\ args = [ c \in Calls |-> NoArgs ]
  /\ startVec = [ c \in Calls |-> << >> ]
  /\ anglesRef = [ c \in Calls |-> "work" ]
  /\ work = [ c \in Calls |-> << >> ]
  /\ iter = [ c \in Calls |-> 0 ]
  /\ updates = [ c \in Calls |-> 0 ]
  /\ result = [ c \in Calls |-> NoResult ]
  /\ alone = [ c \in Calls |-> NoReturn ]
  /\ probe = NoProbe
  /\ \E n \in 1..LinN : \E A \in Matrices(n), b \in RightSides(n) :
       lin = LinStart(Arr(A), b, n)

NextLin == LinColumn \/ LinComponent

SpecLin == InitLin /\ [][NextLin]_vars

\* ------------------------------------------------------------------------
\*  fk on planar chains: every DH row has d = 0 and alpha = 0
\* ------------------------------------------------------------------------

\* the longest planar chain tried
MaxLinks == 3

\* the link lengths tried: those of '3link', and a negative one as in 'ur5'
LinkLengths == { 800, 600, 400, -425 }

\* the planar chains tried
PlanarChains == UNION { [ 1..n -> LinkLengths ] : n \in 1..MaxLinks }

\* a robot whose preset is the planar chain with the link lengths a
PlanarRobot(a) ==
  RobotOf([ name   |-> "planar",
            dh     |-> Arr([ i \in 1..Len(a) |-> << 0, a[i], 0 >> ]),
            limits |-> Arr([ i \in 1..Len(a) |-> << -180, 180 >> ]) ])

\* robot.fk(new Float64Array(n)): forward kinematics at all-zero angles
FKAtZero == Probe("fk", Zeros(robot.nJoints))

\* a planar robot on its own: any of the chains tried
InitPlanar ==
  /\ presetKey = "planar"
  /\ ctor = "ok"
  /\ \E a \in PlanarChains : robot = PlanarRobot(Arr(a))
  /\ pc = [ c \in Calls |-> "idle" ]
  /\ args = [ c \in Calls |-> NoArgs ]
  /\ startVec = [ c \in Calls |-> << >> ]
  /\ anglesRef = [ c \in Calls |-> "work" ]
  /\ work = [ c \in Calls |-> << >> ]
  /\ iter = [ c \in Calls |-> 0 ]
  /\ updates = [ c \in Calls |-> 0 ]
  /\ result = [ c \in Calls |-> NoResult ]
  /\ alone = [ c \in Calls |-> NoReturn ]
  /\ probe = NoProbe
  /\ lin = NoLin

NextPlanar == FKAtZero \/ ProbeReturn

SpecPlanar == InitPlanar /\ [][NextPlanar]_vars

\* ------------------------------------------------------------------------
\*  Scheduling: solveIK is synchronous, so a call that can take its next
\*  step takes it; one call is followed from its start to its return
\* ------------------------------------------------------------------------

\* one solveIK call on its own
SoloNext ==
  \/ \E key \in Keys : Construct(key)
  \/ FirstCall
  \/ FirstCallDefault
  \/ IKIterate(1)
  \/ IKExhaust(1)

\* the call takes its next step
SoloStep == IKIterate(1) \/ IKExhaust(1)

FairSpec == Init /\ [][SoloNext]_vars /\ WF_vars(SoloStep)

\* ------------------------------------------------------------------------
\*  Properties
\* ------------------------------------------------------------------------

\* the robot as the constructor left it
Constructed == NewRobot(presetKey)

\* call c has returned
Terminal(c) == pc[c] \in {"CONVERGED", "EXHAUSTED"}

\* the iteration budget N of call c: 200 when the option is left out
Budget(c) == IF args[c].maxIter = 0 THEN 200 ELSE args[c].maxIter

\* positionTolerance of call c: 0.001 when the option is left out
Tolerance(c) == IF args[c].tol = 0 THEN 1 ELSE args[c].tol

\* the angles call c starts from: startAngles, or the model's own angles
StartOf(c) == IF args[c].given THEN args[c].start ELSE Constructed.angles

\* every component of q lies within the limits of its joint
InLimits(R, q) ==
  \A i \in 1..R.nJoints : R.limits[i][1] <= q[i] /\ q[i] <= R.limits[i][2]

\* the four fields of the object call c returned
Returned(c) ==
  [ angles |-> result[c].angles, converged |-> result[c].converged,
    error |-> result[c].error, iterations |-> result[c].iterations ]

\* C1: whatever the target and the start angles, the angles a solveIK call
\* returns lie within the joint limits, component by component, on the
\* converged and on the exhausted return path.
C1_ReturnedAnglesWithinLimits ==
  \A c \in Calls :
    Terminal(c) =>
      /\ Len(result[c].angles) = robot.nJoints
      /\ InLimits(robot, result[c].angles)

\* C1 happens: a call converged from start angles outside the limits
C1_Witness ==
  /\ pc[1] = "CONVERGED"
  /\ args[1].given
  /\ ~InLimits(robot, args[1].start)
  /\ result[1].angles # args[1].start

\* C2: a call whose start angles already put the end-effector closer to the
\* target than the tolerance applies no joint update and returns
\* converged = true with iterations = 0.
C2_ImmediateConvergence ==
  \A c \in Calls :
    (pc[c] # "idle" /\ DistOf(Constructed, StartOf(c), args[c].target) < Tolerance(c)) =>
      /\ updates[c] = 0
      /\ iter[c] = 0
      /\ Terminal(c) =>
           /\ pc[c] = "CONVERGED"
           /\ result[c].converged
           /\ result[c].iterations = 0

\* C2 happens: a call started at BentPose with a target 0.1 away and the
\* tolerance 0.3 has returned
C2_Witness ==
  /\ pc[1] = "CONVERGED"
  /\ args[1].given
  /\ args[1].start = BentPose(robot)
  /\ args[1].target = NearTarget(robot)
  /\ result[1].error > 0
  /\ result[1].iterations = 0

\* C3: whenever a call returns converged = true, the end-effector of the
\* returned angles lies at the returned error from the target, and that error
\* is below the tolerance.
C3_ConvergedAnglesReachTarget ==
  \A c \in Calls :
    pc[c] = "CONVERGED" =>
      /\ DistOf(robot, result[c].angles, args[c].target) = result[c].error
      /\ DistOf(robot, result[c].angles, args[c].target) < Tolerance(c)

\* the updates and the outcome of call c agree with its budget
C4_Outcome(c) ==
  /\ pc[c] \in {"idle", "ITERATING", "CONVERGED", "EXHAUSTED"}
  /\ updates[c] <= Budget(c)
  /\ pc[c] = "ITERATING" => updates[c] = iter[c]
  /\ pc[c] = "CONVERGED" =>
       /\ result[c].converged
       /\ result[c].iterations = updates[c]
       /\ updates[c] <= Budget(c) - 1
  /\ pc[c] = "EXHAUSTED" =>
       /\ ~result[c].converged
       /\ result[c].iterations = Budget(c)
       /\ updates[c] = Budget(c)

\* a step leaves a call that has returned as it is
C4_Final(c) ==
  Terminal(c) =>
    /\ pc'[c] = pc[c]
    /\ result'[c] = result[c]
    /\ updates'[c] = updates[c]
    /\ iter'[c] = iter[c]

\* C4: a call with the budget N applies at most N updates and ends in exactly
\* one of two outcomes, CONVERGED with converged = true and iterations = the
\* updates applied (0..N-1) or EXHAUSTED with converged = false and
\* iterations = N; it does end, and nothing follows its end.
C4_Terminates ==
  /\ [](\A c \in Calls : C4_Outcome(c))
  /\ [][\A c \in Calls : C4_Final(c)]_vars
  /\ \A c \in Calls : (pc[c] = "ITERATING") ~> Terminal(c)

\* C4 happens: the call with every option left out used up its 200 iterations
C4_Witness ==
  /\ pc[1] = "EXHAUSTED"
  /\ args[1].maxIter = 0
  /\ result[1].iterations = 200
  /\ updates[1] = 200

C6_ClampIdempotent ==
  probe.op = "clampAngles" =>
    /\ Len(probe.ret) = Len(probe.arg)
    /\ InLimits(robot, probe.ret)
    /\ clampAngles(robot, probe.ret) = probe.ret

\* C6 happens: clampAngles ran on a vector with a joint above its limit and
\* another below
C6_Witness ==
  /\ probe.op = "clampAngles"
  /\ \E i \in 1..robot.nJoints : probe.arg[i] > robot.limits[i][2]
  /\ \E i \in 1..robot.nJoints : probe.arg[i] < robot.limits[i][1]

\* C7: solveLinear returns a finite vector of length n for every system; a
\* column whose pivot, the largest entry of the active column, is below the
\* threshold is skipped by the elimination, and its solution component is 0.
C7_SingularHandled ==
  /\ lin.pc \in {"substitute", "returned"} =>
       /\ Len(lin.x) = lin.n
       /\ lin.skipped \cup lin.eliminated = 1..lin.n
       /\ \A i \in (lin.col + 1)..lin.n :
            /\ IsFinite(lin.x[i])
            /\ i \in lin.skipped => lin.x[i] = 0
  /\ lin.pc # "off" =>
       /\ lin.skipped \cap lin.eliminated = {}
       /\ \A i \in lin.skipped : \A r \in i..lin.n : BelowPivotEps(lin.aug[r][i])

\* C7 happens: a 3 x 3 system with a skipped and an eliminated column was
\* solved, with a nonzero component
C7_Witness ==
  /\ lin.pc = "returned"
  /\ lin.n = 3
  /\ lin.skipped # {}
  /\ lin.eliminated # {}
  /\ \E i \in 1..lin.n : lin.x[i] # 0

RECURSIVE SumOfLinks(_, _)
\* the sum of the link lengths a of the first i DH rows
SumOfLinks(dh, i) == IF i = 0 THEN 0 ELSE dh[i][2] + SumOfLinks(dh, i - 1)

\* C8: for a planar chain (d = 0 and alpha = 0 in every DH row) fk at
\* all-zero angles puts the end-effector at (sum of the link lengths, 0, 0);
\* for '3link' that is (1.8, 0, 0).
C8_PlanarZeroPose ==
  (probe.op = "fk" /\ probe.arg = Zeros(robot.nJoints)) =>
    /\ Len(probe.ret) = robot.nJoints + 1
    /\ mat4Pos(probe.ret[robot.nJoints + 1])
         = << SumOfLinks(robot.dh, robot.nJoints), 0, 0 >>

\* C8 happens: fk ran at zero angles on the chain of '3link'
C8_Witness ==
  /\ probe.op = "fk"
  /\ robot.dh = PRESETS["3link"].dh
  /\ mat4Pos(probe.ret[4]) = << 1800, 0, 0 >>

\* C9: clampAngles, fk, jacobian and solveIK leave the caller's vector and
\* the robot's dh, limits, nJoints and angles as they were and return new
\* arrays; a solveIK call returns what it returns when run alone, whatever
\* the other call does in between.
C9_NoSharedState ==
  /\ ctor = "ok" => robot = Constructed
  /\ probe.op # "none" => probe.argAfter = probe.arg /\ probe.retRef = "new"
  /\ \A c \in Calls :
       /\ pc[c] # "idle" => startVec[c] = args[c].start
       /\ Terminal(c) =>
            /\ result[c].obj \notin {"start", "this"}
            /\ Returned(c) = alone[c]

\* C9 happens: two calls, one on a startAngles array, have both returned
\* after updates, their turns interleaved
C9_Witness ==
  /\ Terminal(1)
  /\ Terminal(2)
  /\ args[1].given
  /\ updates[1] > 0
  /\ updates[2] > 0

\* C10: the converged flag agrees with the returned error: converged = false
\* comes with error >= tolerance, converged = true with error < tolerance.
C10_FlagAgreesWithError ==
  \A c \in Calls :
    Terminal(c) => (result[c].converged <=> result[c].error < Tolerance(c))

\* ------------------------------------------------------------------------
\*  robot.fk(v) on every preset
\* ------------------------------------------------------------------------

\* the vectors the callers pass to fk: zero angles, the start poses and the
\* vectors with joints at and beyond their limits
FKVecs(R) == { Zeros(R.nJoints) } \cup StartVecs(R) \cup ClampVecs(R)

\* robot.fk(v)
FKCall == \E v \in FKVecs(robot) : Probe("fk", v)

\* a robot is constructed, then fk is called on it
NextFK ==
  \/ \E key \in Keys : Construct(key)
  \/ FKCall
  \/ ProbeReturn

SpecFK == Init /\ [][NextFK]_vars

\* C11: fk returns n + 1 frames; frame 0 is the identity and frame i + 1 is
\* frame i multiplied on the right by the DH transform of joint i, built from
\* angles[i] and row i (d, a, alpha) of the DH table.
C11_FrameChain ==
  probe.op = "fk" =>
    /\ Len(probe.arg) = robot.nJoints
    /\ Len(probe.ret) = robot.nJoints + 1
    /\ probe.ret[1] = mat4Identity
    /\ \A i \in 1..robot.nJoints :
         probe.ret[i + 1]
           = mat4Mul(probe.ret[i],
                     dhTransform(probe.arg[i], robot.dh[i][1], robot.dh[i][2],
                                 robot.dh[i][3]))

\* C11 happens: fk ran on '6dof' at the pose of TEST 2 and put the
\* end-effector where TEST 2 reports it
C11_Witness ==
  /\ probe.op = "fk"
  /\ presetKey = "6dof"
  /\ probe.arg = BentPose(robot)
  /\ Len(probe.ret) = 7
  /\ mat4Pos(probe.ret[7]) = << 1115, -180, -545 >>

====
